---------------------------- MODULE Spec2Model ----------------------------
(***************************************************************************)
(* Model of the Minesweeper knowledge-base player                          *)
(* ("1 - Knowledge/minesweeper/minesweeper.py"): the ground-truth board of *)
(* class Minesweeper, the Sentence primitives and the MinesweeperAI        *)
(* operations add_knowledge, make_safe_move and make_random_move; and of   *)
(* the tic-tac-toe player ("0/tictactoe/tictactoe.py"): the board          *)
(* functions and minimax.                                                  *)
(***************************************************************************)
EXTENDS Integers, FiniteSets, Sequences, TLC

(* Bounds of the model: cells of the grid (height * width), mines on the   *)
(* board, distinct cells revealed.                                         *)
MaxCells == 6
MaxMines == 2
MaxMoves == 4

(* Bound of the tic-tac-toe model: empty cells of a board given to minimax. *)
MaxEmpty == 3

VARIABLES
    height,      \* Minesweeper.height / MinesweeperAI.height
    width,       \* Minesweeper.width / MinesweeperAI.width
    board,       \* Minesweeper.mines: the cells whose board[i][j] is True
    moves_made,  \* MinesweeperAI.moves_made
    mines,       \* MinesweeperAI.mines
    safes,       \* MinesweeperAI.safes
    knowledge,   \* MinesweeperAI.knowledge: list of sentences
    pc,          \* "idle" between calls, "while" at the head of add_knowledge's loop
    call,        \* <<cell, count>> of the add_knowledge call in progress, else << >>
    last,        \* name of the entry point called last
    ret          \* value returned by the last make_safe_move / make_random_move

vars == <<height, width, board, moves_made, mines, safes, knowledge, pc, call, last, ret>>

kbvars == <<moves_made, mines, safes, knowledge>>

(* Python's None. *)
None == << >>

(* range(n) *)
range(n) == 0 .. (n - 1)

(* Python's ordering of (row, column) tuples. *)
TupleLess(a, b) == a[1] < b[1] \/ (a[1] = b[1] /\ a[2] < b[2])

---------------------------------------------------------------------------
(* class Minesweeper *)

(* The cells of an h x w board. *)
BoardCells(h, w) == {<<i, j>> : i \in range(h), j \in range(w)}

is_mine(cell) == cell \in board

(* Minesweeper.nearby_mines: mines within one row and column of cell. *)
nearby_mines(cell) ==
    Cardinality({<<i, j>> : i \in (cell[1] - 1) .. (cell[1] + 1),
                            j \in (cell[2] - 1) .. (cell[2] + 1)}
                \cap {n \in BoardCells(height, width) : n # cell /\ is_mine(n)})

---------------------------------------------------------------------------
(* class Sentence *)

Sentence(cells, count) == [cells |-> cells, count |-> count]

(* Sentence.__eq__ used by "in" on lists of sentences. *)
SentenceIn(s, list) == \E k \in 1 .. Len(list) :
    list[k].cells = s.cells /\ list[k].count = s.count

known_mines(s) == IF Cardinality(s.cells) = s.count THEN s.cells ELSE {}

(* Faulty variant: the test of known_mines copied into known_safes. *)
known_safes_copied(s) ==
    IF Cardinality(s.cells) = s.count THEN s.cells ELSE {}

known_safes(s) == IF s.count = 0 THEN s.cells ELSE {}

(* Faulty variant: the count is not decremented. *)
Sentence_mark_mine_nodec(s, cell) ==
    IF cell \in s.cells THEN Sentence(s.cells \ {cell}, s.count) ELSE s

Sentence_mark_mine(s, cell) ==
    IF cell \in s.cells THEN Sentence(s.cells \ {cell}, s.count - 1) ELSE s

Sentence_mark_safe(s, cell) ==
    IF cell \in s.cells THEN Sentence(s.cells \ {cell}, s.count) ELSE s

---------------------------------------------------------------------------
(* class MinesweeperAI; kb is the record of safes, mines and knowledge. *)

mark_mine(kb, cell) ==
    [kb EXCEPT !.mines = @ \cup {cell},
               !.knowledge = [k \in 1 .. Len(@) |-> Sentence_mark_mine(@[k], cell)]]

(* Faulty variant: safes is overwritten instead of extended. *)
mark_safe_replacing(kb, cell) ==
    [kb EXCEPT !.safes = {cell},
               !.knowledge = [k \in 1 .. Len(@) |-> Sentence_mark_safe(@[k], cell)]]

(* Faulty variant: the sentences are not updated. *)
mark_safe_nopurge(kb, cell) == [kb EXCEPT !.safes = @ \cup {cell}]

mark_safe(kb, cell) ==
    [kb EXCEPT !.safes = @ \cup {cell},
               !.knowledge = [k \in 1 .. Len(@) |-> Sentence_mark_safe(@[k], cell)]]

(* "for cell_safe in to_mark_safe: self.mark_safe(cell_safe)" *)
RECURSIVE MarkSafeAll(_, _)
MarkSafeAll(kb, cells) ==
    IF cells = {} THEN kb
    ELSE LET c == CHOOSE x \in cells : TRUE
         IN  MarkSafeAll(mark_safe(kb, c), cells \ {c})

(* "for cell_mine in to_mark_mine: self.mark_mine(cell_mine)" *)
RECURSIVE MarkMineAll(_, _)
MarkMineAll(kb, cells) ==
    IF cells = {} THEN kb
    ELSE LET c == CHOOSE x \in cells : TRUE
         IN  MarkMineAll(mark_mine(kb, c), cells \ {c})

(* add_knowledge step 2: the in-bounds neighbours of cell. *)
Neighbors(cell, h, w) ==
    {n \in {<<i, j>> : i \in (cell[1] - 1) .. (cell[1] + 1),
                       j \in (cell[2] - 1) .. (cell[2] + 1)} :
        /\ n # cell
        /\ 0 <= n[1] /\ n[1] < h
        /\ 0 <= n[2] /\ n[2] < w}

(* add_knowledge step 3: neighbours that are neither known safe nor known mine. *)
(* Faulty variant: known safes are kept. *)
Pruned_keepsafes(neighbors, kb) == {n \in neighbors : n \notin kb.mines}

(* Faulty variant: known mines are kept. *)
Pruned_keepmines(neighbors, kb) == {n \in neighbors : n \notin kb.safes}

Pruned(neighbors, kb) ==
    {n \in neighbors : n \notin kb.safes /\ n \notin kb.mines}

(* add_knowledge step 3: count less the known mines among the neighbours. *)
(* Faulty variant: known mines are not subtracted. *)
AdjustedCount_nodec(neighbors, kb, count) == count

AdjustedCount(neighbors, kb, count) ==
    count - Cardinality({n \in neighbors : n \notin kb.safes /\ n \in kb.mines})

(* add_knowledge step 4: append the new sentence unless empty or present. *)
(* Faulty variant: the sentence is appended without looking for an equal one. *)
AddSentence_nodedupe(kb, pruned, adjusted_count) ==
    IF pruned # {}
    THEN [kb EXCEPT !.knowledge = Append(@, Sentence(pruned, adjusted_count))]
    ELSE kb

(* Faulty variant: a sentence with count 0 is not added. *)
AddSentence_nozero(kb, pruned, adjusted_count) ==
    IF /\ pruned # {} /\ adjusted_count # 0
       /\ ~SentenceIn(Sentence(pruned, adjusted_count), kb.knowledge)
    THEN [kb EXCEPT !.knowledge = Append(@, Sentence(pruned, adjusted_count))]
    ELSE kb

AddSentence(kb, pruned, adjusted_count) ==
    IF pruned # {} /\ ~SentenceIn(Sentence(pruned, adjusted_count), kb.knowledge)
    THEN [kb EXCEPT !.knowledge = Append(@, Sentence(pruned, adjusted_count))]
    ELSE kb

(* add_knowledge steps 1-4, up to the head of the while loop. *)
(* Faulty variant: the revealed cell is not marked safe. *)
AddKnowledgeHead_nomark(kb, cell, count, h, w) ==
    LET neighbors == Neighbors(cell, h, w)
    IN  AddSentence(kb, Pruned(neighbors, kb), AdjustedCount(neighbors, kb, count))

AddKnowledgeHead(kb, cell, count, h, w) ==
    LET kb1 == mark_safe(kb, cell)
        neighbors == Neighbors(cell, h, w)
    IN  AddSentence(kb1, Pruned(neighbors, kb1), AdjustedCount(neighbors, kb1, count))

(* add_knowledge step 5b: the sentence inferred from a strictly inside b. *)
(* Faulty variant: a.count is not subtracted. *)
InferredSentence_nosub(a, b) == Sentence(b.cells \ a.cells, b.count)

InferredSentence(a, b) == Sentence(b.cells \ a.cells, b.count - a.count)

(* add_knowledge step 5b: the nested loops over ordered pairs (a, b). *)
(* Faulty variant: inferred sentences are appended to the list that is *)
(* being iterated, so later pairs of the same pass see them.           *)
RECURSIVE SubsetInference_live(_, _, _, _)
SubsetInference_live(kn, i, j, new_inferred) ==
    LET cur == kn \o new_inferred
    IN  IF i > Len(cur) THEN new_inferred
        ELSE IF j > Len(cur) THEN SubsetInference_live(kn, i + 1, 1, new_inferred)
        ELSE LET a == cur[i]
                 b == cur[j]
                 inferred == InferredSentence(a, b)
             IN  IF /\ i # j
                    /\ a.cells # {} /\ b.cells # {}
                    /\ a.cells \subseteq b.cells /\ a.cells # b.cells
                    /\ inferred.cells # {}
                    /\ ~SentenceIn(inferred, cur)
                 THEN SubsetInference_live(kn, i, j + 1,
                                           Append(new_inferred, inferred))
                 ELSE SubsetInference_live(kn, i, j + 1, new_inferred)

RECURSIVE SubsetInference(_, _, _, _)
SubsetInference(kn, i, j, new_inferred) ==
    IF i > Len(kn) THEN new_inferred
    ELSE IF j > Len(kn) THEN SubsetInference(kn, i + 1, 1, new_inferred)
    ELSE LET a == kn[i]
             b == kn[j]
             inferred == InferredSentence(a, b)
         IN  IF /\ i # j
                /\ a.cells # {} /\ b.cells # {}
                /\ a.cells \subseteq b.cells /\ a.cells # b.cells
                /\ inferred.cells # {}
                /\ ~SentenceIn(inferred, kn)
                /\ ~SentenceIn(inferred, new_inferred)
             THEN SubsetInference(kn, i, j + 1, Append(new_inferred, inferred))
             ELSE SubsetInference(kn, i, j + 1, new_inferred)

(* The loop's "changed" flag at the end of a pass. *)
(* Faulty variant: newly inferred sentences do not set the flag. *)
Changed_marksonly(to_mark_safe, to_mark_mine, new_inferred) ==
    to_mark_safe # {} \/ to_mark_mine # {}

Changed(to_mark_safe, to_mark_mine, new_inferred) ==
    to_mark_safe # {} \/ to_mark_mine # {} \/ new_inferred # << >>

(* add_knowledge step 5a: direct deductions, applied to every sentence. *)
DirectDeductions(kb) ==
    LET kn == kb.knowledge
        to_mark_safe == UNION {known_safes(kn[k]) : k \in 1 .. Len(kn)}
        to_mark_mine == UNION {known_mines(kn[k]) : k \in 1 .. Len(kn)}
    IN  [kb |-> MarkMineAll(MarkSafeAll(kb, to_mark_safe), to_mark_mine),
         to_mark_safe |-> to_mark_safe,
         to_mark_mine |-> to_mark_mine]

(* add_knowledge step 5 as a whole: "while changed" run to its end. *)
RECURSIVE RunLoop(_)
RunLoop(kb) ==
    LET d == DirectDeductions(kb)
        new_inferred == SubsetInference(d.kb.knowledge, 1, 1, << >>)
        kb2 == [d.kb EXCEPT !.knowledge = @ \o new_inferred]
    IN  IF Changed(d.to_mark_safe, d.to_mark_mine, new_inferred)
        THEN RunLoop(kb2)
        ELSE kb2

(* sorted(candidates)[0] *)
SortedFirst(candidates) ==
    CHOOSE c \in candidates : \A d \in candidates : d = c \/ TupleLess(c, d)

(* Faulty variant: moves_made is not removed. *)
make_safe_move_ignoremoves == IF safes # {} THEN SortedFirst(safes) ELSE None

make_safe_move ==
    LET candidates == safes \ moves_made
    IN  IF candidates # {} THEN SortedFirst(candidates) ELSE None

(* The values random.choice(candidates) can return, or None. *)
(* Faulty variant: known mines are not removed. *)
make_random_move_keepmines ==
    LET candidates == BoardCells(height, width) \ moves_made
    IN  IF candidates # {} THEN candidates ELSE {None}

make_random_move ==
    LET all_cells == BoardCells(height, width)
        candidates == (all_cells \ moves_made) \ mines
    IN  IF candidates # {} THEN candidates ELSE {None}

---------------------------------------------------------------------------
(* The state machine. *)

KB == [safes |-> safes, mines |-> mines, knowledge |-> knowledge]

Init ==
    /\ height \in 0 .. MaxCells
    /\ width \in 0 .. MaxCells
    /\ height * width <= MaxCells
    /\ board \in {b \in SUBSET BoardCells(height, width) : Cardinality(b) <= MaxMines}
    /\ moves_made = {}
    /\ mines = {}
    /\ safes = {}
    /\ knowledge = << >>
    /\ pc = "idle"
    /\ call = << >>
    /\ last = "init"
    /\ ret = None

(* The caller reveals a cell that is not a mine and passes its exact      *)
(* neighbour count: add_knowledge runs up to the head of its loop.        *)
AddKnowledge ==
    /\ pc = "idle"
    /\ \E cell \in BoardCells(height, width) :
        /\ ~is_mine(cell)
        /\ cell \in moves_made \/ Cardinality(moves_made) < MaxMoves
        /\ \E kb \in {AddKnowledgeHead(KB, cell, nearby_mines(cell), height, width)} :
               /\ moves_made' = moves_made \cup {cell}
               /\ safes' = kb.safes
               /\ mines' = kb.mines
               /\ knowledge' = kb.knowledge
               /\ call' = <<cell, nearby_mines(cell)>>
    /\ pc' = "while"
    /\ last' = "add_knowledge"
    /\ ret' = None
    /\ UNCHANGED <<height, width, board>>

(* One iteration of add_knowledge's loop; the call returns when the pass  *)
(* changed nothing.                                                       *)
LoopPass ==
    /\ pc = "while"
    /\ \E d \in {DirectDeductions(KB)} :
       \E new_inferred \in {SubsetInference(d.kb.knowledge, 1, 1, << >>)} :
           /\ safes' = d.kb.safes
           /\ mines' = d.kb.mines
           /\ knowledge' = d.kb.knowledge \o new_inferred
           /\ pc' = IF Changed(d.to_mark_safe, d.to_mark_mine, new_inferred)
                    THEN "while" ELSE "idle"
           /\ call' = IF Changed(d.to_mark_safe, d.to_mark_mine, new_inferred)
                      THEN call ELSE << >>
    /\ UNCHANGED <<height, width, board, moves_made, last, ret>>

(* Faulty variant: the returned cell is recorded as a move. *)
MakeSafeMove_recordsmove ==
    /\ pc = "idle"
    /\ ret' = make_safe_move
    /\ last' = "make_safe_move"
    /\ moves_made' = IF make_safe_move = None THEN moves_made
                     ELSE moves_made \cup {make_safe_move}
    /\ UNCHANGED <<height, width, board, mines, safes, knowledge, pc, call>>

MakeSafeMove ==
    /\ pc = "idle"
    /\ ret' = make_safe_move
    /\ last' = "make_safe_move"
    /\ UNCHANGED <<height, width, board, moves_made, mines, safes, knowledge, pc, call>>

MakeRandomMove ==
    /\ pc = "idle"
    /\ ret' \in make_random_move
    /\ last' = "make_random_move"
    /\ UNCHANGED <<height, width, board, moves_made, mines, safes, knowledge, pc, call>>

Next == AddKnowledge \/ LoopPass \/ MakeSafeMove \/ MakeRandomMove

Spec == Init /\ [][Next]_vars

(* The loop runs to completion once entered: add_knowledge is synchronous. *)
FairSpec == Spec /\ WF_vars(LoopPass)

(* A caller marks again a cell whose status is already known. *)
MarkSafeKnown ==
    /\ pc = "idle"
    /\ \E cell \in safes :
       \E kb \in {mark_safe(KB, cell)} :
           /\ safes' = kb.safes
           /\ mines' = kb.mines
           /\ knowledge' = kb.knowledge
    /\ last' = "mark_safe"
    /\ ret' = None
    /\ UNCHANGED <<height, width, board, moves_made, pc, call>>

MarkMineKnown ==
    /\ pc = "idle"
    /\ \E cell \in mines :
       \E kb \in {mark_mine(KB, cell)} :
           /\ safes' = kb.safes
           /\ mines' = kb.mines
           /\ knowledge' = kb.knowledge
    /\ last' = "mark_mine"
    /\ ret' = None
    /\ UNCHANGED <<height, width, board, moves_made, pc, call>>

MarkNext == Next \/ MarkSafeKnown \/ MarkMineKnown

MarkSpec == Init /\ [][MarkNext]_vars

(* A single Sentence object, held as knowledge[1], and calls of its        *)
(* methods in any order.  The constructor takes any cell set and count.   *)
SentenceInit ==
    /\ height \in 0 .. MaxCells
    /\ width \in 0 .. MaxCells
    /\ height * width <= MaxCells
    /\ \E cells \in SUBSET BoardCells(height, width) :
       \E count \in 0 .. Cardinality(cells) + 1 :
          knowledge = << Sentence(cells, count) >>
    /\ board = {}
    /\ moves_made = {}
    /\ mines = {}
    /\ safes = {}
    /\ pc = "idle"
    /\ call = << >>
    /\ last = "init"
    /\ ret = None

SentenceKnownMines ==
    /\ ret' = known_mines(knowledge[1])
    /\ last' = "Sentence.known_mines"
    /\ UNCHANGED <<height, width, board, moves_made, mines, safes,
                   knowledge, pc, call>>

SentenceKnownSafes ==
    /\ ret' = known_safes(knowledge[1])
    /\ last' = "Sentence.known_safes"
    /\ UNCHANGED <<height, width, board, moves_made, mines, safes,
                   knowledge, pc, call>>

SentenceMarkMine ==
    \E cell \in BoardCells(height, width) :
        /\ knowledge' = << Sentence_mark_mine(knowledge[1], cell) >>
        /\ call' = << cell >>
        /\ last' = "Sentence.mark_mine"
        /\ ret' = None
        /\ UNCHANGED <<height, width, board, moves_made, mines, safes, pc>>

SentenceMarkSafe ==
    \E cell \in BoardCells(height, width) :
        /\ knowledge' = << Sentence_mark_safe(knowledge[1], cell) >>
        /\ call' = << cell >>
        /\ last' = "Sentence.mark_safe"
        /\ ret' = None
        /\ UNCHANGED <<height, width, board, moves_made, mines, safes, pc>>

SentenceNext ==
    \/ SentenceKnownMines
    \/ SentenceKnownSafes
    \/ SentenceMarkMine
    \/ SentenceMarkSafe

SentenceSpec == SentenceInit /\ [][SentenceNext]_vars

TypeOK ==
    /\ height \in 0 .. MaxCells
    /\ width \in 0 .. MaxCells
    /\ board \subseteq BoardCells(height, width)
    /\ moves_made \subseteq BoardCells(height, width)
    /\ mines \subseteq BoardCells(height, width)
    /\ safes \subseteq BoardCells(height, width)
    /\ \A k \in 1 .. Len(knowledge) :
        knowledge[k].cells \subseteq BoardCells(height, width)
    /\ pc \in {"idle", "while"}
    /\ (pc = "idle") <=> (call = << >>)
    /\ last \in {"init", "add_knowledge", "make_safe_move", "make_random_move",
                 "mark_safe", "mark_mine"}

---------------------------------------------------------------------------
(* Tic-tac-toe (tictactoe.py).  A board is a function from the cells      *)
(* (i, j), 0 <= i, j <= 2, to X, O or EMPTY; an action is a cell.         *)

X == "X"
O == "O"
EMPTY == "EMPTY"

Tiles == range(3) \X range(3)

initial_state == [c \in Tiles |-> EMPTY]

(* Faulty variant: the parity test is inverted. *)
player_odd(b) ==
    LET turns == Cardinality({c \in Tiles : b[c] # EMPTY})
    IN  IF turns % 2 = 1 THEN X ELSE O

player(b) ==
    LET turns == Cardinality({c \in Tiles : b[c] # EMPTY})
    IN  IF turns % 2 = 0 THEN X ELSE O

actions(b) == {c \in Tiles : b[c] = EMPTY}

(* result(board, action): the outcome of the call is the board object     *)
(* passed in as it stands afterwards (board), whether ValueError was      *)
(* raised (raised) and the board returned (value, when nothing is raised).*)
(* Faulty variant: new_board shares its rows with board.                  *)
result_shared(b, action) ==
    IF action \notin actions(b)
    THEN [board |-> b, raised |-> TRUE, value |-> b]
    ELSE LET new_board == [b EXCEPT ![action] = player(b)]
         IN  [board |-> new_board, raised |-> FALSE, value |-> new_board]

result(b, action) ==
    IF action \notin actions(b)
    THEN [board |-> b, raised |-> TRUE, value |-> b]
    ELSE LET new_board == [b EXCEPT ![action] = player(b)]
         IN  [board |-> b, raised |-> FALSE, value |-> new_board]

(* The first line found complete, in the order winner looks: rows, then   *)
(* columns, then the two diagonals.                                       *)
Lines ==
    << {<<0, 0>>, <<0, 1>>, <<0, 2>>}, {<<1, 0>>, <<1, 1>>, <<1, 2>>},
       {<<2, 0>>, <<2, 1>>, <<2, 2>>},
       {<<0, 0>>, <<1, 0>>, <<2, 0>>}, {<<0, 1>>, <<1, 1>>, <<2, 1>>},
       {<<0, 2>>, <<1, 2>>, <<2, 2>>},
       {<<0, 0>>, <<1, 1>>, <<2, 2>>},
       {<<0, 2>>, <<1, 1>>, <<2, 0>>} >>

LineMark(b, line) ==
    IF \E m \in {X, O} : \A c \in line : b[c] = m
    THEN b[CHOOSE c \in line : TRUE]
    ELSE EMPTY

winner(b) ==
    LET complete == {k \in 1 .. Len(Lines) : LineMark(b, Lines[k]) # EMPTY}
    IN  IF complete = {} THEN EMPTY
        ELSE LineMark(b, Lines[CHOOSE k \in complete : \A l \in complete : k <= l])

terminal(b) == winner(b) # EMPTY \/ actions(b) = {}

utility(b) ==
    LET champ == winner(b)
    IN  IF champ = X THEN 1 ELSE IF champ = O THEN -1 ELSE 0

(* The arguments a caller may pass to result as action. *)
ActionInputs == (-1 .. 3) \X (-1 .. 3)

TTTInit ==
    /\ height = 3
    /\ width = 3
    /\ board = initial_state
    /\ moves_made = {}
    /\ mines = {}
    /\ safes = {}
    /\ knowledge = << >>
    /\ pc = "idle"
    /\ call = << >>
    /\ last = "init"
    /\ ret = None

(* r = result(board, action); on a normal return the game goes on with   *)
(* the returned board.  call keeps the arguments as they stand after the *)
(* call, ret what the call raised or returned.                           *)
Result ==
    \E action \in ActionInputs :
        \E r \in {result(board, action)} :
            /\ call' = << r.board, action >>
            /\ ret' = [raised |-> r.raised, value |-> r.value]
            /\ board' = IF r.raised THEN r.board ELSE r.value
            /\ last' = "result"
            /\ UNCHANGED <<height, width, moves_made, mines, safes,
                           knowledge, pc>>

TTTNext == Result

TTTSpec == TTTInit /\ [][TTTNext]_vars

(* float("inf"): every value compared with it lies in -1 .. 1. *)
inf == 2

max(a, b) == IF a >= b THEN a ELSE b

min(a, b) == IF a <= b THEN a ELSE b

(* max_value(b, alpha, beta) and min_value(b, alpha, beta): "for a in      *)
(* actions(b)" iterates a set, in an order the language leaves open, so   *)
(* each operator yields the set of values the call can return; MaxLoop    *)
(* and MinLoop are the for loops with the actions still to come in rem.   *)
RECURSIVE max_value(_, _, _)
RECURSIVE min_value(_, _, _)
RECURSIVE MaxLoop(_, _, _, _, _)
RECURSIVE MinLoop(_, _, _, _, _)

MaxLoop(b, rem, v, alpha, beta) ==
    IF rem = {} THEN {v}
    ELSE UNION {UNION {LET v2 == max(v, w)
                           alpha2 == max(alpha, v2)
                       IN  IF v2 = 1 \/ alpha2 >= beta
                           THEN {v2}
                           ELSE MaxLoop(b, rem \ {a}, v2, alpha2, beta) :
                       w \in min_value(result(b, a).value, alpha, beta)} :
                a \in rem}

MinLoop(b, rem, v, alpha, beta) ==
    IF rem = {} THEN {v}
    ELSE UNION {UNION {LET v2 == min(v, w)
                           beta2 == min(beta, v2)
                       IN  IF v2 = -1 \/ alpha >= beta2
                           THEN {v2}
                           ELSE MinLoop(b, rem \ {a}, v2, alpha, beta2) :
                       w \in max_value(result(b, a).value, alpha, beta)} :
                a \in rem}

max_value(b, alpha, beta) ==
    IF terminal(b) THEN {utility(b)}
    ELSE MaxLoop(b, actions(b), -inf, alpha, beta)

min_value(b, alpha, beta) ==
    IF terminal(b) THEN {utility(b)}
    ELSE MinLoop(b, actions(b), inf, alpha, beta)

(* The loop of minimax for current == X, and the actions it can end with. *)
(* Faulty variant: a value equal to best_val replaces the best action.    *)
RECURSIVE RootLoopX_ge(_, _, _, _, _)
RootLoopX_ge(b, rem, best_val, best_action, alpha) ==
    IF rem = {} THEN {best_action}
    ELSE UNION {UNION {LET better == val >= best_val
                           best_val2 == IF better THEN val ELSE best_val
                           best_action2 == IF better THEN a ELSE best_action
                       IN  IF best_val2 = 1
                           THEN {best_action2}
                           ELSE RootLoopX_ge(b, rem \ {a}, best_val2, best_action2,
                                             max(alpha, best_val2)) :
                       val \in min_value(result(b, a).value, alpha, inf)} :
                a \in rem}

RECURSIVE RootLoopX(_, _, _, _, _)
RootLoopX(b, rem, best_val, best_action, alpha) ==
    IF rem = {} THEN {best_action}
    ELSE UNION {UNION {LET better == val > best_val
                           best_val2 == IF better THEN val ELSE best_val
                           best_action2 == IF better THEN a ELSE best_action
                       IN  IF best_val2 = 1
                           THEN {best_action2}
                           ELSE RootLoopX(b, rem \ {a}, best_val2, best_action2,
                                          max(alpha, best_val2)) :
                       val \in min_value(result(b, a).value, alpha, inf)} :
                a \in rem}

(* The loop of minimax for current == O. *)
RECURSIVE RootLoopO(_, _, _, _, _)
RootLoopO(b, rem, best_val, best_action, beta) ==
    IF rem = {} THEN {best_action}
    ELSE UNION {UNION {LET better == val < best_val
                           best_val2 == IF better THEN val ELSE best_val
                           best_action2 == IF better THEN a ELSE best_action
                       IN  IF best_val2 = -1
                           THEN {best_action2}
                           ELSE RootLoopO(b, rem \ {a}, best_val2, best_action2,
                                          min(beta, best_val2)) :
                       val \in max_value(result(b, a).value, -inf, beta)} :
                a \in rem}

(* The values minimax(board) can return. *)
minimax(b) ==
    IF terminal(b) THEN {None}
    ELSE IF player(b) = X
         THEN RootLoopX(b, actions(b), -inf, None, -inf)
         ELSE RootLoopO(b, actions(b), inf, None, inf)

(* The boards minimax is given: those a sequence of legal result calls   *)
(* can build, with at most MaxEmpty empty cells.                         *)
MinimaxInit ==
    /\ height = 3
    /\ width = 3
    /\ board \in {b \in [Tiles -> {X, O, EMPTY}] :
                    /\ Cardinality(actions(b)) <= MaxEmpty
                    /\ LET turns == Tiles \ actions(b)
                           xs == {c \in turns : b[c] = X}
                       IN  2 * Cardinality(xs) - Cardinality(turns) \in {0, 1}}
    /\ moves_made = {}
    /\ mines = {}
    /\ safes = {}
    /\ knowledge = << >>
    /\ pc = "idle"
    /\ call = << >>
    /\ last = "init"
    /\ ret = None

(* minimax(board), called once on the board given. *)
Minimax ==
    /\ last = "init"
    /\ \E best_action \in minimax(board) : ret' = best_action
    /\ call' = << board >>
    /\ last' = "minimax"
    /\ UNCHANGED <<height, width, board, moves_made, mines, safes,
                   knowledge, pc>>

MinimaxNext == Minimax

MinimaxSpec == MinimaxInit /\ [][MinimaxNext]_vars

---------------------------------------------------------------------------
(* Properties. *)

Returned == pc = "idle"

Unknown == BoardCells(height, width) \ (safes \cup mines)

(* C1: with sound inputs (cell not a mine, count = nearby_mines(cell)),    *)
(* after each add_knowledge call every cell of mines is a mine on the      *)
(* board, no cell of safes is a mine, and every sentence of knowledge has  *)
(* exactly count of its cells being mines on the board.                    *)
C1_SoundAgainstBoard ==
    Returned =>
        /\ \A c \in mines : is_mine(c)
        /\ \A c \in safes : ~is_mine(c)
        /\ \A k \in 1 .. Len(knowledge) :
            Cardinality({c \in knowledge[k].cells : is_mine(c)}) = knowledge[k].count

C1_Witness ==
    /\ Returned /\ last = "add_knowledge"
    /\ mines # {}
    /\ \E k \in 1 .. Len(knowledge) :
        knowledge[k].cells # {} /\ knowledge[k].count >= 1

(* C2: in every state reached by add_knowledge calls with sound inputs the *)
(* safes set and the mines set are disjoint.                               *)
C2_SafesMinesDisjoint == safes \cap mines = {}

C2_Witness ==
    /\ last = "add_knowledge"
    /\ Cardinality(safes) >= 2
    /\ mines # {}
    /\ Unknown # {}

(* C3: after every add_knowledge call returns, no cell of safes or mines   *)
(* appears in the cells of any sentence of knowledge.                      *)
C3_KnownCellsPurged ==
    Returned =>
        \A k \in 1 .. Len(knowledge) :
            knowledge[k].cells \cap (safes \cup mines) = {}

C3_Witness ==
    /\ Returned /\ last = "add_knowledge"
    /\ Len(knowledge) > Cardinality(moves_made)
    /\ mines # {}

(* C4: after any sequence of add_knowledge calls no two distinct positions *)
(* of the knowledge list hold equal sentences (same cells, same count).    *)
C4_NoEqualSentences ==
    Returned =>
        \A i, j \in 1 .. Len(knowledge) :
            i # j => ~(/\ knowledge[i].cells = knowledge[j].cells
                       /\ knowledge[i].count = knowledge[j].count)

(* C5: after every add_knowledge call with sound inputs every sentence of  *)
(* knowledge has 0 <= count <= number of its cells.                        *)
C5_CountWithinCells ==
    Returned =>
        \A k \in 1 .. Len(knowledge) :
            /\ 0 <= knowledge[k].count
            /\ knowledge[k].count <= Cardinality(knowledge[k].cells)

C5_Witness ==
    /\ Returned /\ last = "add_knowledge"
    /\ Len(knowledge) > Cardinality(moves_made)
    /\ \E k \in 1 .. Len(knowledge) :
        /\ knowledge[k].count >= 1
        /\ knowledge[k].count < Cardinality(knowledge[k].cells)

(* C6: the while loop of add_knowledge terminates: once a call is at the   *)
(* head of the loop, a pass that changes nothing is reached and the call   *)
(* returns.                                                                *)
C6_LoopTerminates == (pc = "while") ~> (pc = "idle")

C6_Witness ==
    /\ pc = "while"
    /\ Len(knowledge) > Cardinality(moves_made)
    /\ mines # {}

(* C7: when add_knowledge returns no sentence with a non-empty cell set    *)
(* has count 0 or count equal to its number of cells, and for every pair   *)
(* of distinct sentences A, B with A.cells a non-empty strict subset of    *)
(* B.cells the sentence (B.cells - A.cells, B.count - A.count) is in       *)
(* knowledge.                                                              *)
C7_ReturnsAtFixpoint ==
    Returned =>
        /\ \A k \in 1 .. Len(knowledge) :
            knowledge[k].cells # {} =>
                /\ knowledge[k].count # 0
                /\ knowledge[k].count # Cardinality(knowledge[k].cells)
        /\ \A i, j \in 1 .. Len(knowledge) :
            (/\ i # j
             /\ knowledge[i].cells # {}
             /\ knowledge[i].cells \subseteq knowledge[j].cells
             /\ knowledge[i].cells # knowledge[j].cells)
            => \E k \in 1 .. Len(knowledge) :
                /\ knowledge[k].cells = knowledge[j].cells \ knowledge[i].cells
                /\ knowledge[k].count = knowledge[j].count - knowledge[i].count

C7_Witness ==
    /\ Returned /\ last = "add_knowledge"
    /\ \E i, j \in 1 .. Len(knowledge) :
        /\ knowledge[i].cells # {}
        /\ knowledge[i].cells \subseteq knowledge[j].cells
        /\ knowledge[i].cells # knowledge[j].cells

(* C8: make_safe_move returns the smallest cell (by row, then column) of   *)
(* safes minus moves_made, and None exactly when that set is empty.        *)
C8_SafeMoveSmallest ==
    last = "make_safe_move" =>
        IF ret = None
        THEN safes \ moves_made = {}
        ELSE /\ ret \in safes
             /\ ret \notin moves_made
             /\ \A c \in safes \ moves_made :
                 \/ ret[1] < c[1]
                 \/ (ret[1] = c[1] /\ ret[2] <= c[2])

C8_Witness ==
    /\ last = "make_safe_move"
    /\ ret # None
    /\ Cardinality(safes \ moves_made) >= 2
    /\ \E m \in moves_made : TupleLess(m, ret)

(* C9: make_random_move returns only an in-bounds cell that is neither in  *)
(* moves_made nor in mines, every such cell is a possible result, and it   *)
(* returns None exactly when no such cell exists (also on a grid with      *)
(* height or width 0).                                                     *)
FreeCell(c) ==
    /\ 0 <= c[1] /\ c[1] < height
    /\ 0 <= c[2] /\ c[2] < width
    /\ c \notin moves_made
    /\ c \notin mines

C9_RandomMoveFreeCell ==
    /\ last = "make_random_move" =>
        IF ret = None
        THEN \A c \in (0 .. MaxCells) \X (0 .. MaxCells) : ~FreeCell(c)
        ELSE FreeCell(ret)
    /\ Returned =>
        /\ \A c \in (0 .. MaxCells) \X (0 .. MaxCells) :
            FreeCell(c) => c \in make_random_move
        /\ None \in make_random_move
            <=> \A c \in (0 .. MaxCells) \X (0 .. MaxCells) : ~FreeCell(c)

C9_Witness ==
    /\ last = "make_random_move"
    /\ ret # None
    /\ mines # {}
    /\ moves_made # {}
    /\ Cardinality(make_random_move) >= 2

(* C10: make_safe_move and make_random_move leave moves_made, safes, mines *)
(* and knowledge unchanged.                                                *)
C10_MovesDoNotMutate ==
    [][last' \in {"make_safe_move", "make_random_move"} => UNCHANGED kbvars]_vars

C10_Witness ==
    /\ last = "make_safe_move"
    /\ ret # None
    /\ mines # {}

(* C11: marking is idempotent: in any reachable knowledge base, mark_safe  *)
(* on a cell already in safes and mark_mine on a cell already in mines     *)
(* leave safes, mines and every sentence's cells and count unchanged.      *)
C11_MarkingIdempotent ==
    [][last' \in {"mark_safe", "mark_mine"} =>
        UNCHANGED <<safes, mines, knowledge>>]_vars

C11_Witness ==
    /\ last = "mark_mine"
    /\ Cardinality(mines) >= 1
    /\ Cardinality(safes) >= 2
    /\ \E k \in 1 .. Len(knowledge) : knowledge[k].cells # {}

(* C12: subset rule.  When knowledge holds A = ({p,q}, 1) and              *)
(* B = ({p,q,r}, 2) the next pass derives ({r}, 1) (unless it marks r a    *)
(* mine at once) and the loop ends with r in mines; and in every pass, for *)
(* distinct sentences with A.cells a non-empty strict subset of B.cells    *)
(* as the subset step reads them, (B.cells - A.cells, B.count - A.count)   *)
(* is in knowledge after the pass.                                         *)
SubsetPairAB(a, b) ==
    /\ Cardinality(a.cells) = 2 /\ a.count = 1
    /\ Cardinality(b.cells) = 3 /\ b.count = 2
    /\ a.cells \subseteq b.cells

C12_InstanceEndsInMines ==
    pc = "while" =>
        \A i, j \in 1 .. Len(knowledge) :
            SubsetPairAB(knowledge[i], knowledge[j]) =>
                (knowledge[j].cells \ knowledge[i].cells) \subseteq RunLoop(KB).mines

C12_PassAddsDifferences ==
    pc = "while" =>
        \A i, j \in 1 .. Len(knowledge) :
            (/\ i # j
             /\ knowledge'[i].cells # {}
             /\ knowledge'[i].cells \subseteq knowledge'[j].cells
             /\ knowledge'[i].cells # knowledge'[j].cells)
            => \E k \in 1 .. Len(knowledge') :
                /\ knowledge'[k].cells = knowledge'[j].cells \ knowledge'[i].cells
                /\ knowledge'[k].count = knowledge'[j].count - knowledge'[i].count

C12_PassDerivesInstance ==
    pc = "while" =>
        \A i, j \in 1 .. Len(knowledge) :
            SubsetPairAB(knowledge[i], knowledge[j]) =>
                \A r \in knowledge[j].cells \ knowledge[i].cells :
                    \/ r \in mines'
                    \/ \E k \in 1 .. Len(knowledge') :
                        knowledge'[k].cells = {r} /\ knowledge'[k].count = 1

C12_SubsetRule ==
    /\ [] C12_InstanceEndsInMines
    /\ [][C12_PassDerivesInstance /\ C12_PassAddsDifferences]_vars

C12_Witness ==
    /\ pc = "while"
    /\ \E i, j \in 1 .. Len(knowledge) :
        SubsetPairAB(knowledge[i], knowledge[j])

(* The cells of the grid within one row and one column of c, c excluded. *)
Around(c) ==
    {n \in BoardCells(height, width) :
        /\ n # c
        /\ n[1] - c[1] \in -1 .. 1
        /\ n[2] - c[2] \in -1 .. 1}

(* C13: a reveal with count 0 makes all neighbours safe within the same    *)
(* call: when add_knowledge(cell, 0) with sound input returns, every       *)
(* in-bounds neighbour of cell is in safes (as for the corner (0,0), whose *)
(* neighbours are (0,1), (1,0) and (1,1)).                                 *)
C13_ZeroCountNeighboursSafe ==
    [][(pc = "while" /\ pc' = "idle" /\ call[2] = 0) =>
        Around(call[1]) \subseteq safes']_vars

C13_Witness ==
    /\ pc = "while"
    /\ call = << <<0, 0>>, 0 >>
    /\ board # {}
    /\ {<<0, 1>>, <<1, 0>>, <<1, 1>>} \subseteq safes

(* The 1x3 grid whose only mine is (0,2). *)
Grid1x3 == height = 1 /\ width = 3 /\ board = {<<0, 2>>}

(* After add_knowledge((0,0), 0) as the only reveal, (0,1) is in safes. *)
C14_FirstReveal ==
    (Grid1x3 /\ Returned /\ moves_made = {<<0, 0>>}) => <<0, 1>> \in safes

(* The following add_knowledge((0,1), 1) appends the sentence ({(0,2)}, 1). *)
C14_SecondSentence ==
    (/\ Grid1x3 /\ pc = "idle" /\ pc' = "while"
     /\ moves_made = {<<0, 0>>} /\ call' = << <<0, 1>>, 1 >>)
    => /\ Len(knowledge') = Len(knowledge) + 1
       /\ knowledge'[Len(knowledge')] = Sentence({<<0, 2>>}, 1)

(* ... and returns with (0,2) in mines and not in safes. *)
C14_SecondReturn ==
    (/\ Grid1x3 /\ pc = "while" /\ pc' = "idle"
     /\ moves_made = {<<0, 0>>, <<0, 1>>} /\ call = << <<0, 1>>, 1 >>)
    => (<<0, 2>> \in mines' /\ <<0, 2>> \notin safes')

(* C14: on a 1x3 grid with the only mine at (0,2), add_knowledge((0,0), 0) *)
(* puts (0,1) in safes, and the following add_knowledge((0,1), 1) builds   *)
(* the sentence ({(0,2)}, 1), the known safe neighbour (0,0) dropped, and  *)
(* ends with (0,2) in mines and not in safes.                              *)
C14_Scenario1x3 ==
    /\ [] C14_FirstReveal
    /\ [][C14_SecondSentence /\ C14_SecondReturn]_vars

C14_Witness ==
    /\ Grid1x3 /\ Returned /\ last = "add_knowledge"
    /\ moves_made = {<<0, 0>>, <<0, 1>>}
    /\ <<0, 2>> \in mines /\ <<0, 2>> \notin safes

(* C15: a sentence's count is never driven below 0 silently: mark_mine(c)  *)
(* on a sentence that contains c and has count 0 does not leave a sentence *)
(* with a negative count (it is to fail instead).                          *)
C15_CountNeverNegative ==
    [][(/\ last' = "Sentence.mark_mine"
        /\ call'[1] \in knowledge[1].cells
        /\ knowledge[1].count = 0)
       => knowledge'[1].count >= 0]_vars

(* C16: known_mines() returns the full cell set when count equals the      *)
(* number of cells and the empty set otherwise; known_safes() returns the  *)
(* full cell set when count is 0 and the empty set otherwise; for a        *)
(* sentence with a non-empty cell set the two results share no cell.       *)
C16_KnownMinesResult ==
    last' = "Sentence.known_mines" =>
        /\ knowledge[1].count = Cardinality(knowledge[1].cells)
                => ret' = knowledge[1].cells
        /\ knowledge[1].count # Cardinality(knowledge[1].cells)
                => ret' = {}

C16_KnownSafesResult ==
    last' = "Sentence.known_safes" =>
        /\ knowledge[1].count = 0 => ret' = knowledge[1].cells
        /\ knowledge[1].count # 0 => ret' = {}

C16_ResultsDisjoint ==
    knowledge[1].cells # {} =>
        known_mines(knowledge[1]) \cap known_safes(knowledge[1]) = {}

C16_SentencePrimitives ==
    /\ [] C16_ResultsDisjoint
    /\ [][C16_KnownMinesResult /\ C16_KnownSafesResult]_vars

C16_Witness ==
    /\ last = "Sentence.known_safes"
    /\ Cardinality(knowledge[1].cells) >= 2
    /\ ret = knowledge[1].cells

(* The sentence add_knowledge(cell, count) is to build in the current state. *)
RevealSentence(cell, count) ==
    Sentence({n \in Around(cell) : n \notin safes /\ n \notin mines},
             count - Cardinality({n \in Around(cell) : n \in mines}))

(* knowledge with cell removed from every sentence, as line 196 leaves it. *)
KnowledgeWithout(cell) ==
    [k \in 1 .. Len(knowledge) |->
        Sentence(knowledge[k].cells \ {cell}, knowledge[k].count)]

(* C17: the sentence add_knowledge(cell, count) builds has as cells the    *)
(* in-bounds cells within one row and one column of cell, cell excluded,   *)
(* that are in neither safes nor mines, and as count the supplied count    *)
(* minus the number of those neighbours in mines; it is appended to        *)
(* knowledge only if its cell set is non-empty and no equal sentence is    *)
(* already in knowledge.                                                   *)
C17_RevealSentence ==
    [][(pc = "idle" /\ pc' = "while") =>
        LET new == RevealSentence(call'[1], call'[2])
            old == KnowledgeWithout(call'[1])
        IN  knowledge' =
                IF new.cells # {} /\ \A k \in 1 .. Len(old) : old[k] # new
                THEN Append(old, new)
                ELSE old]_vars

C17_Witness ==
    /\ pc = "while"
    /\ Len(knowledge) >= 2
    /\ Around(call[1]) \cap mines # {}
    /\ Around(call[1]) \cap safes # {}
    /\ knowledge[Len(knowledge)] = RevealSentence(call[1], call[2])
    /\ knowledge[Len(knowledge)].cells # {}

(* The differences B - A of the ordered pairs (A, B) of the list kn with  *)
(* A.cells a non-empty strict subset of B.cells, as a set.                *)
PairDifferences(kn) ==
    {Sentence(kn[j].cells \ kn[i].cells, kn[j].count - kn[i].count) :
        <<i, j>> \in {q \in (1 .. Len(kn)) \X (1 .. Len(kn)) :
                        /\ q[1] # q[2]
                        /\ kn[q[1]].cells # {}
                        /\ kn[q[1]].cells \subseteq kn[q[2]].cells
                        /\ kn[q[1]].cells # kn[q[2]].cells}}

(* C18: within one pass of the loop, subset inference reads only the list *)
(* as it stands when the subset step starts, and what it infers is merged *)
(* after all ordered pairs were examined: the sentences a pass appends    *)
(* are, as a set, the differences of the pairs of that list which the     *)
(* list does not hold already, each appended once; no sentence inferred   *)
(* in the pass served as A or B, and the order of the list plays no part. *)
C18_InferenceFromSnapshot ==
    [][pc = "while" =>
        LET n == Len(knowledge)
            snapshot == SubSeq(knowledge', 1, n)
            added == {knowledge'[k] : k \in n + 1 .. Len(knowledge')}
        IN  /\ Len(knowledge') >= n
            /\ added = PairDifferences(snapshot)
                            \ {snapshot[k] : k \in 1 .. n}
            /\ Cardinality(added) = Len(knowledge') - n]_vars

C18_Witness ==
    /\ pc = "while"
    /\ Len(knowledge) >= 4
    /\ LET n == Len(knowledge)
       IN  /\ knowledge[n] \in PairDifferences(SubSeq(knowledge, 1, n - 2))
           /\ knowledge[n - 1] \in PairDifferences(SubSeq(knowledge, 1, n - 2))
           /\ knowledge[n] # knowledge[n - 1]

(* C19: the knowledge base only grows: across add_knowledge calls,        *)
(* moves_made, safes and mines never lose a cell, and a call adds exactly *)
(* its cell argument to moves_made.                                       *)
C19_OnlyGrows ==
    [][/\ moves_made \subseteq moves_made'
       /\ safes \subseteq safes'
       /\ mines \subseteq mines'
       /\ (pc = "idle" /\ pc' = "while") =>
              moves_made' = moves_made \cup {call'[1]}
       /\ pc = "while" => moves_made' = moves_made]_vars

C19_Witness ==
    /\ Returned /\ last = "add_knowledge"
    /\ Cardinality(moves_made) = 2
    /\ Cardinality(safes) >= 4
    /\ Cardinality(mines) = 2

(* C20: after every add_knowledge call, moves_made is a subset of safes   *)
(* and is disjoint from mines: every revealed cell is recorded as safe    *)
(* and, with sound inputs, is never marked a mine.                        *)
C20_MovesAreSafe ==
    Returned => (moves_made \subseteq safes /\ moves_made \cap mines = {})

C20_Witness ==
    /\ Returned /\ last = "add_knowledge"
    /\ Cardinality(moves_made) >= 3
    /\ mines # {}
    /\ moves_made \subseteq safes

CountOf(b, m) == Cardinality({c \in Tiles : b[c] = m})

(* On every board reached, X has as many marks as O or one more, and it  *)
(* is X's turn exactly when the counts are equal.                        *)
C21_Counts ==
    /\ CountOf(board, X) - CountOf(board, O) \in {0, 1}
    /\ player(board) = X <=> CountOf(board, X) = CountOf(board, O)
    /\ player(board) \in {X, O}

(* A legal result call places the mark of the player to move on exactly  *)
(* the chosen cell.                                                      *)
C21_PlacesMark ==
    (last' = "result" /\ ~ret'.raised) =>
        LET mark == IF CountOf(board, X) = CountOf(board, O) THEN X ELSE O
        IN  /\ call'[2] \in Tiles
            /\ ret'.value[call'[2]] = mark
            /\ \A c \in Tiles \ {call'[2]} : ret'.value[c] = board[c]
            /\ board[call'[2]] = EMPTY

(* C21: turn alternation: on every board reachable from initial_state()  *)
(* by result(board, action) calls with action in actions(board), the     *)
(* number of X marks equals the number of O marks or exceeds it by one,  *)
(* player(board) is X exactly when the counts are equal, and result      *)
(* places the mark of player(board) on exactly the chosen cell.          *)
C21_TurnAlternation ==
    /\ [] C21_Counts
    /\ [][C21_PlacesMark]_vars

C21_Witness ==
    /\ last = "result" /\ ~ret.raised
    /\ CountOf(board, X) = 3 /\ CountOf(board, O) = 2
    /\ board[call[2]] = X
    /\ player(board) = O

(* C22: result(board, action) never modifies the board passed in: for a  *)
(* legal action it returns a new board that differs from the input only  *)
(* at the chosen cell, for an action whose cell is not empty it raises   *)
(* ValueError, and in both cases the input board is as before.           *)
C22_ResultLeavesInput ==
    [][last' = "result" =>
        LET action == call'[2]
        IN  /\ call'[1] = board
            /\ (action \in Tiles /\ board[action] = EMPTY) =>
                   /\ ~ret'.raised
                   /\ {c \in Tiles : ret'.value[c] # board[c]} = {action}
            /\ (action \in Tiles /\ board[action] # EMPTY) =>
                   ret'.raised]_vars

C22_Witness ==
    /\ last = "result" /\ ret.raised
    /\ call[2] \in Tiles
    /\ board[call[2]] = O
    /\ call[1] = board
    /\ CountOf(board, EMPTY) <= 5

(* The full minimax value of a board: no pruning, no cut-off. *)
RECURSIVE FullValue(_)
FullValue(b) ==
    IF winner(b) # EMPTY \/ \A c \in Tiles : b[c] # EMPTY
    THEN (IF winner(b) = X THEN 1 ELSE IF winner(b) = O THEN -1 ELSE 0)
    ELSE LET next == {[b EXCEPT ![c] = IF CountOf(b, X) = CountOf(b, O)
                                        THEN X ELSE O] :
                         c \in {t \in Tiles : b[t] = EMPTY}}
             values == {FullValue(n) : n \in next}
         IN  IF CountOf(b, X) = CountOf(b, O)
             THEN CHOOSE v \in values : \A u \in values : u <= v
             ELSE CHOOSE v \in values : \A u \in values : v <= u

===========================================================================
